---- MODULE Spec2Model ----
(***************************************************************************)
(* Generation request handlers of replicate-api.                           *)
(*                                                                         *)
(* One request is followed from its arrival to its response through the    *)
(* handler that serves it.  The repository holds several variants of the  *)
(* same handler; six of them are complete in the sources and are modelled: *)
(*   "server"    src/server.js:32            app.post("/generate")         *)
(*   "flux"      src/api/generate-image.js:17   handler (flux-dev)         *)
(*   "imagen"    src/api/generate-image.js:198  handler (imagen-4/kling)   *)
(*   "seedreamA" src/api/generate.js:14      handler (3 output shapes)     *)
(*   "seedreamB" src/api/generate.js:181     handler (url or blob)         *)
(*   "seedreamC" src/api/generate.js:547     handler (url() only)          *)
(* A handler runs from one await to the next in one step; the provider,    *)
(* the download and the storage answer nondeterministically.               *)
(*                                                                         *)
(* JavaScript values are strings: UNDEF and NULL stand for undefined and   *)
(* null, a string starting with # is a number or a boolean, every other    *)
(* string is itself.                                                       *)
(***************************************************************************)
EXTENDS Integers, Sequences, FiniteSets, TLC

VARIABLES
  pc,          \* where the handler stands: idle, run, sleep, fetch, upload, insert, done
  req,         \* the request being served
  resHeaders,  \* the response headers set so far
  input,       \* the input object given to replicate.run
  attempts,    \* calls of replicate.run made
  lastErr,     \* the last error replicate.run threw
  sleeps,      \* backoff delays taken
  jitter,      \* the length of the delay being taken, in ms
  output,      \* what replicate.run returned
  fetches,     \* calls of fetch made
  fetchArg,    \* the address given to fetch
  r,           \* the response of fetch
  contentType, \* the content type of the artifact
  uploads,     \* calls of storage upload made
  path,        \* the storage path of the upload
  uploadError, \* the error of the upload
  lookups,     \* calls of getPublicUrl made
  inserts,     \* calls of messages.insert made
  insertFailed, \* whether messages.insert failed
  procs,       \* the handler invocations made so far, running side by side
  uploadCalls, \* the calls of storage upload of all invocations, in order
  issued,      \* how many uuids uuidv4() has returned
  responses,   \* responses sent
  res          \* the response sent

vars == <<pc, req, resHeaders, input, attempts, lastErr, sleeps, jitter,
          output, fetches, fetchArg, r, contentType, uploads, path,
          uploadError, lookups, inserts, insertFailed, responses, res,
          procs, uploadCalls, issued>>

\* the state of one request followed alone
requestVars ==
  <<pc, req, resHeaders, input, attempts, lastErr, sleeps, jitter,
    output, fetches, fetchArg, r, contentType, uploads, path,
    uploadError, lookups, inserts, insertFailed, responses, res>>

\* the state of the requests followed side by side
concVars == <<procs, uploadCalls, issued>>

-----------------------------------------------------------------------------
(* Bounds of the model *)

\* a caller-supplied input dictionary holds at most this many keys
MaxInputKeys == 2
\* Math.random() is sampled at k / RandomSamples, and just below 1
RandomSamples == 2

-----------------------------------------------------------------------------
(* JavaScript values *)

UNDEF == "<undefined>"
NULL == "<null>"

NumVals == {"#1", "#2", "#2.5", "#3.5", "#7", "#42", "#50", "#100", "#512"}
BoolVals == {"#true", "#false"}

TypeOf(v) ==
  IF v = UNDEF THEN "undefined"
  ELSE IF v = NULL THEN "object"
  ELSE IF v \in NumVals THEN "number"
  ELSE IF v \in BoolVals THEN "boolean"
  ELSE "string"

\* !v is false
Truthy(v) == v \notin {UNDEF, NULL, "", "#false"}

\* a ?? b
Coalesce(a, b) == IF a \in {UNDEF, NULL} THEN b ELSE a

\* a || b
OrElse(a, b) == IF Truthy(a) THEN a ELSE b

-----------------------------------------------------------------------------
(* Strings whose characters the code inspects *)

Chars(s) ==
  CASE s = "" -> << >>
    [] s = "image/png" -> <<"i","m","a","g","e","/","p","n","g">>
    [] s = "image/jpeg" -> <<"i","m","a","g","e","/","j","p","e","g">>
    [] s = "image/jpg" -> <<"i","m","a","g","e","/","j","p","g">>
    [] s = "image/webp" -> <<"i","m","a","g","e","/","w","e","b","p">>
    [] s = "image/gif" -> <<"i","m","a","g","e","/","g","i","f">>
    [] s = "video/mp4" -> <<"v","i","d","e","o","/","m","p","4">>
    [] s = "png" -> <<"p","n","g">>
    [] s = "jpeg" -> <<"j","p","e","g">>
    [] s = "jpg" -> <<"j","p","g">>
    [] s = "webp" -> <<"w","e","b","p">>
    [] s = "http" -> <<"h","t","t","p">>
    [] s = "http://" -> <<"h","t","t","p",":","/","/">>
    [] s = "https://" -> <<"h","t","t","p","s",":","/","/">>
    [] s = "https://cdn/a" -> <<"h","t","t","p","s",":","/","/","c","d","n","/","a">>
    [] s = "http://cdn/b" -> <<"h","t","t","p",":","/","/","c","d","n","/","b">>
    [] s = "httpx" -> <<"h","t","t","p","x">>
    [] s = "a.png" -> <<"a",".","p","n","g">>
    [] s = "https://cdn/a,http://cdn/b" ->
         <<"h","t","t","p","s",":","/","/","c","d","n","/","a",",",
           "h","t","t","p",":","/","/","c","d","n","/","b">>
    [] s = "http://cdn/b,https://cdn/a" ->
         <<"h","t","t","p",":","/","/","c","d","n","/","b",",",
           "h","t","t","p","s",":","/","/","c","d","n","/","a">>
    [] s = "137,80" -> <<"1","3","7",",","8","0">>
    [] s = "undefined" -> <<"u","n","d","e","f","i","n","e","d">>
    [] s = "[object Object]" ->
         <<"[","o","b","j","e","c","t"," ","O","b","j","e","c","t","]">>
    [] s = "[object Blob]" ->
         <<"[","o","b","j","e","c","t"," ","B","l","o","b","]">>

\* s.includes(sub)
Includes(s, sub) ==
  LET cs == Chars(s)
      cu == Chars(sub)
  IN \E i \in 1..(Len(cs) - Len(cu) + 1) : SubSeq(cs, i, i + Len(cu) - 1) = cu

\* s.startsWith(sub)
StartsWith(s, sub) ==
  LET cs == Chars(s)
      cu == Chars(sub)
  IN Len(cu) <= Len(cs) /\ SubSeq(cs, 1, Len(cu)) = cu

\* /^https?:\/\//.test(s)
IsHttpUrl(s) == StartsWith(s, "http://") \/ StartsWith(s, "https://")

-----------------------------------------------------------------------------
(* Input dictionaries: a function from the keys to their values, UNDEF for *)
(* a key the object does not hold                                          *)

AllKeys ==
  {"prompt", "aspect_ratio", "go_fast", "guidance", "megapixels",
   "num_outputs", "output_format", "output_quality", "num_inference_steps",
   "disable_safety_checker", "size", "guidance_scale", "seed", "width",
   "height", "safety_filter_level", "start_image", "mode", "duration",
   "negative_prompt", "text", "foo"}

EmptyObject == [k \in AllKeys |-> UNDEF]

KeysOf(o) == {k \in AllKeys : o[k] # UNDEF}

\* the process constant DISABLE_SAFETY, whatever the deployment makes it
DISABLE_SAFETY == "#DISABLE_SAFETY"

ALLOWED_IMAGE_KEYS ==
  {"seed", "prompt", "guidance", "image_size", "speed_mode", "aspect_ratio",
   "output_format", "output_quality", "num_inference_steps",
   "safety_filter_level"}

ALLOWED_VIDEO_KEYS ==
  {"seed", "prompt", "image", "go_fast", "num_frames", "resolution",
   "sample_shift", "frames_per_second", "disable_safety_checker",
   "lora_scale_transformer", "lora_scale_transformer_2",
   "lora_weights_transformer", "lora_weights_transformer_2",
   "text",
   "mode", "duration", "start_image", "negative_prompt"}

allowedKeys == {"seed", "size", "width", "height", "aspect_ratio", "guidance_scale"}

\* the defaults of the flux-dev handlers, before the caller's input is spread
FluxDefaults(prompt) ==
  [k \in AllKeys |->
     CASE k = "prompt" -> prompt
       [] k = "aspect_ratio" -> "9:16"
       [] k = "go_fast" -> "#false"
       [] k = "guidance" -> "#2.5"
       [] k = "megapixels" -> "1"
       [] k = "num_outputs" -> "#1"
       [] k = "output_format" -> "webp"
       [] k = "output_quality" -> "#100"
       [] k = "num_inference_steps" -> "#50"
       [] k = "disable_safety_checker" -> DISABLE_SAFETY
       [] OTHER -> UNDEF]

\* { prompt, ...defaults, ...(clientInput || {}) }, then megapixels is forced
\* to a value flux-dev accepts
FluxInput(prompt, clientInput) ==
  LET spread == [k \in AllKeys |->
                   IF clientInput[k] # UNDEF THEN clientInput[k]
                   ELSE FluxDefaults(prompt)[k]]
  IN IF spread["megapixels"] # "1" /\ spread["megapixels"] # "0.25"
     THEN [spread EXCEPT !["megapixels"] = "1"]
     ELSE spread

\* the seedream handlers: guidance is copied to guidance_scale, then every
\* allowed key of the caller's input is copied in
SeedreamSanitized(clientInput) ==
  [k \in AllKeys |->
     IF k \in allowedKeys /\ clientInput[k] # UNDEF THEN clientInput[k]
     ELSE IF /\ k = "guidance_scale"
             /\ TypeOf(clientInput["guidance"]) = "number"
             /\ TypeOf(clientInput["guidance_scale"]) # "number"
          THEN clientInput["guidance"]
     ELSE UNDEF]

NumberOnly(v) == IF TypeOf(v) = "number" THEN v ELSE UNDEF

SeedreamAInput(prompt, clientInput) ==
  LET sanitized == SeedreamSanitized(clientInput)
  IN [k \in AllKeys |->
        CASE k = "prompt" -> prompt
          [] k = "aspect_ratio" -> Coalesce(sanitized["aspect_ratio"], "9:16")
          [] k = "size" -> Coalesce(sanitized["size"], "regular")
          [] k = "guidance_scale" ->
               IF TypeOf(sanitized["guidance_scale"]) = "number"
               THEN sanitized["guidance_scale"] ELSE "#3.5"
          [] k \in {"seed", "width", "height"} -> NumberOnly(sanitized[k])
          [] OTHER -> UNDEF]

SeedreamBInput(prompt, clientInput) ==
  LET normalized == SeedreamSanitized(clientInput)
  IN [k \in AllKeys |->
        CASE k = "prompt" -> prompt
          [] k = "aspect_ratio" ->
               IF normalized["aspect_ratio"] # UNDEF
               THEN normalized["aspect_ratio"] ELSE "9:16"
          [] k = "size" ->
               IF normalized["size"] # UNDEF THEN normalized["size"]
               ELSE "regular"
          [] k = "guidance_scale" ->
               IF TypeOf(normalized["guidance_scale"]) = "number"
               THEN normalized["guidance_scale"] ELSE "#3.5"
          [] k \in {"width", "height"} ->
               IF \/ normalized["aspect_ratio"] = "custom"
                  \/ normalized["width"] # UNDEF
                  \/ normalized["height"] # UNDEF
               THEN normalized[k] ELSE UNDEF
          [] k = "seed" -> NumberOnly(normalized["seed"])
          [] OTHER -> UNDEF]

\* the imagen/kling handlers keep the allowed keys that are neither
\* undefined nor null
Sanitized(allowed, clientInput) ==
  [k \in AllKeys |->
     IF k \in allowed /\ clientInput[k] # UNDEF /\ clientInput[k] # NULL
     THEN clientInput[k] ELSE UNDEF]

ImagenInput(prompt, clientInput) ==
  LET sanitized == Sanitized(ALLOWED_IMAGE_KEYS, clientInput)
  IN [k \in AllKeys |->
        CASE k = "prompt" -> prompt
          [] k = "aspect_ratio" -> OrElse(sanitized["aspect_ratio"], "4:3")
          [] k = "safety_filter_level" ->
               OrElse(sanitized["safety_filter_level"], "block_medium_and_above")
          [] OTHER -> UNDEF]

\* the image taken before the input's start_image
StartImagePrefersImage(image, clientInput) ==
  Coalesce(image, Sanitized(ALLOWED_VIDEO_KEYS, clientInput)["start_image"])

\* sanitized.start_image ?? image
StartImage(image, clientInput) ==
  Coalesce(Sanitized(ALLOWED_VIDEO_KEYS, clientInput)["start_image"], image)

KlingInput(prompt, image, clientInput) ==
  LET sanitized == Sanitized(ALLOWED_VIDEO_KEYS, clientInput)
  IN [k \in AllKeys |->
        CASE k = "prompt" -> prompt
          [] k = "start_image" -> StartImage(image, clientInput)
          [] k \in {"mode", "duration"} ->
               IF Truthy(sanitized[k]) THEN sanitized[k] ELSE UNDEF
          [] k = "negative_prompt" ->
               IF TypeOf(sanitized[k]) = "string" THEN sanitized[k] ELSE UNDEF
          [] OTHER -> UNDEF]

-----------------------------------------------------------------------------
(* What the provider returns                                               *)
(*                                                                         *)
(* An item is a value that is not an array:                                *)
(*   ty    typeof the value ("null" for null)                              *)
(*   str   the string itself, or what toString() of the object yields      *)
(*   url   whether .url is a function ("fn"), a string ("str") or absent   *)
(*   ret   what calling url() yields: a string, a URL object, undefined,   *)
(*         or an exception                                                 *)
(*   href  the address the accessor or the property carries                *)
(*   bin   "Blob" or "Uint8Array" when the value is an instance of it      *)
(*   btype the Blob's declared type                                        *)
(*   out   the .output property                                            *)

Item(ty, str, url, ret, href, bin, btype, out) ==
  [ty |-> ty, str |-> str, url |-> url, ret |-> ret, href |-> href,
   bin |-> bin, btype |-> btype, out |-> out]

Plain(ty, str) == Item(ty, str, "none", "none", UNDEF, "none", UNDEF, UNDEF)

Undefined == Plain("undefined", "undefined")
Null == Plain("null", "null")
EmptyString == Plain("string", "")
UrlString == Plain("string", "https://cdn/a")
UrlString2 == Plain("string", "http://cdn/b")
TextString == Plain("string", "a.png")
PlainObject == Plain("object", "[object Object]")
\* the provider SDK's FileOutput: url() yields a URL object, toString() its href
FileOutput ==
  Item("object", "https://cdn/a", "fn", "URL", "https://cdn/a", "none", UNDEF, UNDEF)
FileLike ==
  Item("object", "[object Object]", "fn", "string", "https://cdn/a", "none", UNDEF, UNDEF)
ThrowingAccessor ==
  Item("object", "[object Object]", "fn", "throw", UNDEF, "none", UNDEF, UNDEF)
EmptyAccessor ==
  Item("object", "[object Object]", "fn", "undefined", UNDEF, "none", UNDEF, UNDEF)
TextAccessor ==
  Item("object", "[object Object]", "fn", "string", "a.png", "none", UNDEF, UNDEF)
UrlProperty ==
  Item("object", "[object Object]", "str", "none", "https://cdn/a", "none", UNDEF, UNDEF)
OutputProperty ==
  Item("object", "[object Object]", "none", "none", UNDEF, "none", UNDEF, "https://cdn/a")
PngBlob ==
  Item("object", "[object Blob]", "none", "none", UNDEF, "Blob", "image/png", UNDEF)
UntypedBlob ==
  Item("object", "[object Blob]", "none", "none", UNDEF, "Blob", "", UNDEF)
Bytes ==
  Item("object", "137,80", "none", "none", UNDEF, "Uint8Array", UNDEF, UNDEF)
BlobWithUrl ==
  Item("object", "[object Blob]", "fn", "string", "https://cdn/a", "Blob", "image/png", UNDEF)

Items ==
  {Undefined, Null, EmptyString, UrlString, UrlString2, TextString, PlainObject,
   FileOutput, FileLike, ThrowingAccessor, EmptyAccessor, TextAccessor,
   UrlProperty, OutputProperty, PngBlob, UntypedBlob, Bytes, BlobWithUrl}

\* an output is an item or an array of items
Single(item) == [isArray |-> FALSE, elems |-> <<item>>]
Array(items) == [isArray |-> TRUE, elems |-> items]

Outputs ==
  {Single(i) : i \in Items}
    \cup {Array(<< >>), Array(<<UrlString>>), Array(<<FileOutput>>),
          Array(<<FileLike>>), Array(<<Null>>), Array(<<TextString>>),
          Array(<<UrlString, UrlString2>>), Array(<<UrlString2, UrlString>>)}

\* output[0]
First(o) == IF Len(o.elems) = 0 THEN Undefined ELSE o.elems[1]

\* Array.prototype.toString joins the elements, null and undefined as ""
JoinStr(i) == IF i.ty \in {"undefined", "null"} THEN "" ELSE i.str

RECURSIVE Join(_)
Join(items) ==
  IF Len(items) = 0 THEN ""
  ELSE IF Len(items) = 1 THEN JoinStr(items[1])
  ELSE JoinStr(items[1]) \o "," \o Join(Tail(items))

\* output.toString()
OutputToString(o) == IF o.isArray THEN Join(o.elems) ELSE o.elems[1].str

\* !!item
TruthyItem(i) == i.ty = "object" \/ (i.ty = "string" /\ i.str # "")

-----------------------------------------------------------------------------
(* Output-shape resolution: from the provider's output to what the handler *)
(* does next:                                                              *)
(*   "fetch"    download target                                            *)
(*   "bytes"    the output is the artifact, of content type ctype          *)
(*   "respond"  answer status with the error (and the debug payload)       *)
(*   "throw"    an exception, for the enclosing try/catch                  *)

NoDebug ==
  [type |-> UNDEF, hasUrlFn |-> UNDEF, isUint8Array |-> UNDEF, isBlob |-> UNDEF]

ToFetch(target) ==
  [kind |-> "fetch", target |-> target, ctype |-> UNDEF, status |-> 0,
   error |-> UNDEF, debug |-> NoDebug]
\* the download of what toString() yielded, which has its own error message
ToFetchToString(target) ==
  [kind |-> "fetch", target |-> target, ctype |-> UNDEF, status |-> 0,
   error |-> " (toString URL)", debug |-> NoDebug]
ToBytes(ctype) ==
  [kind |-> "bytes", target |-> UNDEF, ctype |-> ctype, status |-> 0,
   error |-> UNDEF, debug |-> NoDebug]
ToRespond(status, error, debug) ==
  [kind |-> "respond", target |-> UNDEF, ctype |-> UNDEF, status |-> status,
   error |-> error, debug |-> debug]
ToThrow(message) ==
  [kind |-> "throw", target |-> UNDEF, ctype |-> UNDEF, status |-> 0,
   error |-> message, debug |-> NoDebug]

AccessorError == "url() failed"

\* typeof x, for an output
TypeOfOutput(o) ==
  IF o.isArray THEN "object"
  ELSE IF o.elems[1].ty = "null" THEN "object"
  ELSE o.elems[1].ty

BoolStr(b) == IF b THEN "#true" ELSE "#false"

\* server.js and the flux handler: the first element of an array, then a
\* string, a url() accessor, a url property
ResolveFlux(o) ==
  LET first == IF o.isArray THEN First(o) ELSE o.elems[1]
      noUrl == ToThrow("No image URL returned by model")
  IN IF ~TruthyItem(first) THEN noUrl
     ELSE IF first.ty = "string" THEN ToFetch(first.str)
     ELSE IF first.url = "fn" THEN
       CASE first.ret = "throw" -> ToThrow(AccessorError)
         [] first.ret = "undefined" -> ToFetch("undefined")
         [] OTHER -> IF first.href = "" THEN noUrl ELSE ToFetch(first.href)
     ELSE IF first.url = "str" THEN
       IF first.href = "" THEN noUrl ELSE ToFetch(first.href)
     ELSE noUrl

\* generate.js, first handler: url() accessor, raw bytes, string URL, else
\* the unrecognized shape with its debug payload
ResolveSeedreamA(o) ==
  LET i == o.elems[1]
      hasUrlFn == ~o.isArray /\ i.ty = "object" /\ i.url = "fn"
      isBlob == ~o.isArray /\ i.bin = "Blob"
      isUint8Array == ~o.isArray /\ i.bin = "Uint8Array"
  IN IF hasUrlFn THEN
       CASE i.ret = "throw" -> ToThrow(AccessorError)
         [] i.ret = "undefined" -> ToFetch("undefined")
         [] OTHER -> ToFetch(i.href)
     ELSE IF isBlob \/ isUint8Array THEN
       ToBytes(IF isBlob /\ i.btype # "" THEN i.btype ELSE "image/jpeg")
     ELSE IF ~o.isArray /\ i.ty = "string" /\ IsHttpUrl(i.str) THEN ToFetch(i.str)
     ELSE ToRespond(500, "Unrecognized model output shape",
                    [type |-> TypeOfOutput(o), hasUrlFn |-> BoolStr(hasUrlFn),
                     isUint8Array |-> BoolStr(isUint8Array),
                     isBlob |-> BoolStr(isBlob)])

\* generate.js, second handler: a URL from url, else arrayBuffer(), else
\* toString()
ResolveSeedreamB(o) ==
  LET i == o.elems[1]
      isObject == o.isArray \/ i.ty = "object"
      \* the string imageUrl holds, UNDEF when it holds no string
      imageUrl ==
        IF ~isObject \/ o.isArray THEN UNDEF
        ELSE IF i.url = "fn" /\ i.ret = "string" THEN i.href
        ELSE IF i.url = "str" THEN i.href
        ELSE UNDEF
      str == OutputToString(o)
      noBytes == ToThrow("Could not resolve image bytes from model output")
  IN IF imageUrl # UNDEF /\ imageUrl # "" /\ StartsWith(imageUrl, "http")
     THEN ToFetch(imageUrl)
     ELSE IF isObject THEN
       IF ~o.isArray /\ i.bin = "Blob" THEN ToBytes("image/jpeg")
       ELSE IF StartsWith(str, "http") THEN ToFetchToString(str)
       ELSE noBytes
     ELSE noBytes

\* generate.js, fourth handler: the url() accessor only
ResolveSeedreamC(o) ==
  LET i == o.elems[1]
  IN IF o.isArray \/ ~TruthyItem(i) \/ i.url # "fn"
     THEN ToRespond(502, "Model did not return a url() accessor", NoDebug)
     ELSE CASE i.ret = "throw" -> ToThrow(AccessorError)
            [] i.ret = "string" /\ i.href # "" -> ToFetch(i.href)
            [] OTHER -> ToRespond(502, "Model returned an invalid image URL", NoDebug)

\* extractUrl: what it returns, as the target fetch would be given, UNDEF
\* for a falsy value; or the exception of the accessor
extractUrl(o) ==
  LET i == o.elems[1]
      first == First(o)
      value(v) == [throws |-> FALSE, target |-> IF v = "" THEN UNDEF ELSE v]
      null == value(UNDEF)
  IN IF ~o.isArray /\ ~TruthyItem(i) THEN null
     ELSE IF o.isArray THEN
       IF first.ty \in {"undefined", "null"} THEN null ELSE value(first.str)
     ELSE IF i.ty = "string" THEN value(i.str)
     ELSE IF i.url = "fn" THEN
       CASE i.ret = "throw" -> [throws |-> TRUE, target |-> UNDEF]
         [] i.ret = "undefined" -> null
         [] OTHER -> value(i.href)
     ELSE IF i.url = "str" THEN value(i.href)
     ELSE IF i.out # UNDEF THEN value(i.out)
     ELSE null

\* handleImageGeneration / handleVideoGeneration after runWithRetry
ResolveImagen(o, what) ==
  LET u == extractUrl(o)
  IN IF u.throws THEN ToThrow(AccessorError)
     ELSE IF u.target = UNDEF
       THEN ToRespond(500, what \o " generation failed (no URL)", NoDebug)
     ELSE ToFetch(u.target)

-----------------------------------------------------------------------------
(* Requests *)

Handlers == {"server", "flux", "imagen", "seedreamA", "seedreamB", "seedreamC"}

\* server.js routes POST only; the other handlers see every method
Methods(h) == IF h = "server" THEN {"POST"} ELSE {"OPTIONS", "POST", "GET"}

\* the values a caller gives a key of the input dictionary
ClientVals(k) ==
  CASE k = "prompt" -> {"evil"}
    [] k = "guidance" -> {"#7", "high"}
    [] k = "guidance_scale" -> {"#2", NULL}
    [] k = "aspect_ratio" -> {"1:1", NULL}
    [] k = "size" -> {"big"}
    [] k = "seed" -> {"#42"}
    [] k = "width" -> {"#512", NULL}
    [] k = "megapixels" -> {"0.25", "4"}
    [] k = "start_image" -> {"s1", "", NULL}
    [] k = "mode" -> {"pro"}
    [] k = "text" -> {"hi"}
    [] k = "foo" -> {"bar"}

\* the keys a caller gives a handler: those its code reads, prompt, and a
\* key it does not know
ClientKeys(h, type) ==
  CASE h \in {"server", "flux"} -> {"prompt", "guidance", "megapixels", "foo"}
    [] h = "imagen" /\ type = "video" ->
         {"prompt", "start_image", "mode", "text", "foo"}
    [] h = "imagen" -> {"prompt", "aspect_ratio", "guidance", "foo"}
    [] OTHER -> {"prompt", "guidance", "guidance_scale", "aspect_ratio",
                 "size", "seed", "width", "foo"}

\* the dictionaries over the keys K that hold at most MaxInputKeys keys
ClientInputs(K) ==
  UNION {{[k \in AllKeys |-> IF k \in S THEN f[k] ELSE UNDEF] :
            f \in {g \in [S -> UNION {ClientVals(k) : k \in S}] :
                     \A k \in S : g[k] \in ClientVals(k)}} :
         S \in {T \in SUBSET K : Cardinality(T) <= MaxInputKeys}}

Request(h, m, hasBody, type, prompt, image, userId, characterId, clientInput) ==
  [handler |-> h, method |-> m, hasBody |-> hasBody, type |-> type,
   prompt |-> prompt, image |-> image, userId |-> userId,
   characterId |-> characterId, clientInput |-> clientInput]

NoRequest ==
  Request("none", UNDEF, FALSE, UNDEF, UNDEF, UNDEF, UNDEF, UNDEF, EmptyObject)

\* a request without a body; in server.js express.json() gives every
\* request a body object
Bodiless(h) ==
  IF h = "server" THEN {}
  ELSE {Request(h, m, FALSE, UNDEF, UNDEF, UNDEF, UNDEF, UNDEF, EmptyObject) :
          m \in Methods(h)}

\* a request with a JSON body; type and image are read by the imagen handler
WithBody(h) ==
  UNION {{Request(h, m, TRUE, type, prompt, image, userId, characterId, ci) :
            m \in Methods(h),
            prompt \in {UNDEF, "", "a cat"}, userId \in {UNDEF, "u1"},
            characterId \in {UNDEF, "c1"},
            image \in IF type = "video" THEN {UNDEF, "", "ref"} ELSE {UNDEF},
            ci \in ClientInputs(ClientKeys(h, type))} :
         type \in IF h = "imagen" THEN {UNDEF, "video"} ELSE {UNDEF}}

Requests == UNION {Bodiless(h) \cup WithBody(h) : h \in Handlers}

-----------------------------------------------------------------------------
(* Responses *)

NoResponse ==
  [status |-> 0, body |-> UNDEF, error |-> UNDEF, type |-> UNDEF,
   path |-> UNDEF, url |-> UNDEF, generationTime |-> UNDEF, debug |-> NoDebug,
   jobStatus |-> UNDEF, predictionId |-> UNDEF]

\* res.status(status).end()
End(status) == [NoResponse EXCEPT !.status = status, !.body = "end"]

\* res.status(status).json({ error, debug })
JsonError(status, error, debug) ==
  [NoResponse EXCEPT !.status = status, !.body = "json", !.error = error,
                     !.debug = debug]

\* the message taken as it is, empty or not
CaughtWithoutFallback(message, fallback) == JsonError(500, message, NoDebug)

\* catch (err) { res.status(500).json({ error: err?.message || fallback }) }
Caught(message, fallback) == JsonError(500, OrElse(message, fallback), NoDebug)

UnknownError(h) == IF h = "imagen" THEN "Unknown error in handler" ELSE "Unknown error"

\* the success body of each handler
JsonOk(h, type, p, url) ==
  [NoResponse EXCEPT
     !.status = 200, !.body = "json", !.path = p, !.url = url,
     !.type = IF h = "imagen" THEN type ELSE UNDEF,
     !.generationTime = IF h \in {"seedreamA", "seedreamB", "seedreamC"}
                        THEN "#ms" ELSE UNDEF]

AllowOrigin == <<"Access-Control-Allow-Origin", "*">>

CorsHeaders ==
  {AllowOrigin,
   <<"Access-Control-Allow-Methods", "POST, OPTIONS">>,
   <<"Access-Control-Allow-Headers", "Content-Type">>}

\* the headers a handler sets before it looks at the request; server.js
\* leaves them to the cors() middleware
HeadersOf(h) ==
  CASE h = "server" -> {AllowOrigin}
    [] h = "flux" -> CorsHeaders
    [] OTHER -> CorsHeaders \cup {<<"Content-Type", "application/json; charset=utf-8">>}

-----------------------------------------------------------------------------
(* The handler up to its first await *)

\* type = "image" unless the body says "video"
Kind(q) == IF q.handler = "imagen" /\ q.type = "video" THEN "video" ELSE "image"

Label(q) == IF Kind(q) = "video" THEN "Video" ELSE "Image"

\* const { prompt, ... } = req.body throws when there is no body; the later
\* handlers read req.body || {}
Destructures(q) == q.hasBody \/ q.handler \notin {"server", "flux"}

\* !prompt || !userId || !characterId
RequiredMissing(q) ==
  ~Truthy(q.prompt) \/ ~Truthy(q.userId) \/ ~Truthy(q.characterId)

\* the input object the handler builds for replicate.run
BuildInput(q) ==
  CASE q.handler \in {"server", "flux"} -> FluxInput(q.prompt, q.clientInput)
    [] q.handler = "seedreamA" -> SeedreamAInput(q.prompt, q.clientInput)
    [] q.handler = "seedreamB" -> SeedreamBInput(q.prompt, q.clientInput)
    [] q.handler = "seedreamC" -> SeedreamAInput(q.prompt, q.clientInput)
    [] q.handler = "imagen" /\ Kind(q) = "video" ->
         KlingInput(q.prompt, q.image, q.clientInput)
    [] OTHER -> ImagenInput(q.prompt, q.clientInput)

\* the required fields looked at before the method
EarlyValidatesFirst(q) ==
  IF RequiredMissing(q)
    THEN JsonError(400, "prompt, userId, characterId required", NoDebug)
  ELSE IF q.method = "OPTIONS" THEN End(200)
  ELSE IF q.method # "POST" THEN JsonError(405, "Method not allowed", NoDebug)
  ELSE IF Kind(q) = "video" /\ ~Truthy(StartImage(q.image, q.clientInput))
    THEN JsonError(400, "image or start_image required for video", NoDebug)
  ELSE NoResponse

\* the response the handler gives before any call, NoResponse when it goes
\* on to call the provider
Early(q) ==
  IF q.method = "OPTIONS" THEN End(200)
  ELSE IF q.method # "POST" THEN JsonError(405, "Method not allowed", NoDebug)
  ELSE IF ~Destructures(q)
    THEN Caught("Cannot destructure property 'prompt' of 'req.body'",
                UnknownError(q.handler))
  ELSE IF RequiredMissing(q)
    THEN JsonError(400, "prompt, userId, characterId required", NoDebug)
  ELSE IF Kind(q) = "video" /\ ~Truthy(StartImage(q.image, q.clientInput))
    THEN JsonError(400, "image or start_image required for video", NoDebug)
  ELSE NoResponse

-----------------------------------------------------------------------------
(* The artifact: content type, extension, storage path *)

Tries == 2
JitterBase == 300
JitterSpan == 500

\* 300 + Math.floor(Math.random() * 500)
Jitter(floor) == JitterBase + floor

\* Math.floor(Math.random() * 500) at the sampled values of Math.random()
RandomFloors ==
  {(k * JitterSpan) \div RandomSamples : k \in 0..(RandomSamples - 1)}
    \cup {JitterSpan - 1}

UUIDs == {"uuid-1", "uuid-2"}

\* what r.headers.get("content-type") yields
ContentTypeHeaders ==
  {NULL, "image/png", "image/jpeg", "image/jpg", "image/webp", "image/gif",
   "video/mp4"}

DefaultContentType(q) ==
  CASE q.handler \in {"server", "flux"} -> "image/webp"
    [] Kind(q) = "video" -> "video/mp4"
    [] OTHER -> "image/jpeg"

\* the test for jpeg left out
ExtFluxWithoutJpg(ct) == IF Includes(ct, "png") THEN "png" ELSE "webp"

\* server.js and the flux handler
ExtFlux(ct) ==
  IF Includes(ct, "png") THEN "png"
  ELSE IF Includes(ct, "jpeg") \/ Includes(ct, "jpg") THEN "jpg"
  ELSE "webp"

\* the seedream handlers
ExtSeedream(ct) ==
  IF Includes(ct, "png") THEN "png"
  ELSE IF Includes(ct, "jpeg") \/ Includes(ct, "jpg") THEN "jpg"
  ELSE IF Includes(ct, "webp") THEN "webp"
  ELSE "jpg"

\* handleImageGeneration
ExtImagen(ct) ==
  IF Includes(ct, "png") THEN "png"
  ELSE IF Includes(ct, "webp") THEN "webp"
  ELSE "jpg"

Ext(q, ct) ==
  CASE q.handler \in {"server", "flux"} -> ExtFlux(ct)
    [] Kind(q) = "video" -> "mp4"
    [] q.handler = "imagen" -> ExtImagen(ct)
    [] OTHER -> ExtSeedream(ct)

\* a video stored beside the images
StoragePathFlat(q, uuid, ext) ==
  q.userId \o "/" \o q.characterId \o "/" \o uuid \o "." \o ext

\* `${userId}/${characterId}/${filename}`, under videos/ for a video
StoragePath(q, uuid, ext) ==
  q.userId \o "/" \o q.characterId \o "/"
    \o (IF Kind(q) = "video" THEN "videos/" ELSE "")
    \o uuid \o "." \o ext

\* getPublicUrl(path).data.publicUrl
PublicUrl(p) == "https://storage/characters/" \o p

-----------------------------------------------------------------------------
(* The environment's answers *)

\* what replicate.run throws: a message and, for an API error, a status
\* (0 when the error carries none)
ProviderErrors ==
  {[message |-> "Prediction failed", status |-> 0],
   [message |-> "", status |-> 0],
   [message |-> "Unprocessable Entity", status |-> 422]}

NoError == [message |-> UNDEF, status |-> 0]

\* the responses of fetch
FetchResponses ==
  {[ok |-> TRUE, status |-> 200, statusText |-> "OK", header |-> h] :
     h \in ContentTypeHeaders}
    \cup {[ok |-> FALSE, status |-> 404, statusText |-> "Not Found", header |-> NULL],
          [ok |-> FALSE, status |-> 503, statusText |-> "Service Unavailable",
           header |-> NULL]}

NoFetchResponse == [ok |-> FALSE, status |-> 0, statusText |-> UNDEF, header |-> UNDEF]

\* the errors of storage upload, UNDEF for none
UploadErrors == {"new row violates row-level security policy"}

-----------------------------------------------------------------------------
(* State *)

NoOutput == [isArray |-> FALSE, elems |-> << >>]

(* Invocations side by side: each call of a handler has its own locals *)

MaxRequests == 2

\* the invocations made so far, at most MaxRequests of them
Slots == 1..Len(procs)

\* the locals of one invocation
NoInvocation ==
  [req |-> NoRequest, pc |-> "idle", attempts |-> 0, lastErr |-> NoError,
   output |-> NoOutput, path |-> UNDEF, res |-> NoResponse]

\* the requests that arrive side by side: two callers, two handlers; the same
\* request may arrive more than once
ConcurrentRequests ==
  {Request(c[1], "POST", TRUE, UNDEF, "a cat", UNDEF, c[2], "c1", EmptyObject) :
     c \in {<<"server", "u1">>, <<"imagen", "u2">>}}

Init ==
  /\ pc = "idle"
  /\ req = NoRequest
  /\ resHeaders = {}
  /\ input = EmptyObject
  /\ attempts = 0
  /\ lastErr = NoError
  /\ sleeps = 0
  /\ jitter = 0
  /\ output = NoOutput
  /\ fetches = 0
  /\ fetchArg = UNDEF
  /\ r = NoFetchResponse
  /\ contentType = UNDEF
  /\ uploads = 0
  /\ path = UNDEF
  /\ uploadError = UNDEF
  /\ lookups = 0
  /\ inserts = 0
  /\ insertFailed = FALSE
  /\ procs = << >>
  /\ uploadCalls = << >>
  /\ issued = 0
  /\ responses = 0
  /\ res = NoResponse

\* res.status(...).json(...) or .end(): the handler is done
Respond(response) ==
  /\ pc' = "done"
  /\ res' = response
  /\ responses' = responses + 1

\* const r = await fetch(target)
CallFetch(target) ==
  /\ pc' = "fetch"
  /\ fetchArg' = target
  /\ fetches' = fetches + 1

\* the extension and the path are made, and storage upload is called
CallUpload(ct, uuid) ==
  /\ pc' = "upload"
  /\ contentType' = ct
  /\ path' = StoragePath(req, uuid, Ext(req, ct))
  /\ uploads' = uploads + 1

-----------------------------------------------------------------------------
(* Actions *)

\* a request arrives: the handler runs to its response, or to its call of
\* replicate.run
handler(q) ==
  /\ pc = "idle"
  /\ UNCHANGED <<insertFailed, concVars>>
  /\ req' = q
  /\ resHeaders' = HeadersOf(q.handler)
  /\ IF Early(q) # NoResponse
     THEN /\ Respond(Early(q))
          /\ UNCHANGED <<input, attempts>>
     ELSE /\ pc' = "run"
          /\ input' = BuildInput(q)
          /\ attempts' = attempts + 1
          /\ UNCHANGED <<res, responses>>
  /\ UNCHANGED <<lastErr, sleeps, jitter, output, fetches, fetchArg, r,
                 contentType, uploads, path, uploadError, lookups, inserts>>

\* the loop bound off by one: a third try
LoopContinuesOnceMore(i) == i <= Tries

\* for (let i = 0; i < tries; i++)
LoopContinues(i) == i < Tries

\* a sleep after every failed try, the last one too
SleepsAfterEveryTry(i) == i < Tries

\* if (i < tries - 1) await sleep(jitter)
SleepsAfter(i) == i < Tries - 1

\* runWithRetry throws lastErr and the handler answers with it
ProviderFailed(q, err) ==
  JsonError(IF err.status # 0 THEN err.status ELSE 500,
            OrElse(err.message, Label(q) \o " generation failed"), NoDebug)

\* the loop of runWithRetry goes round after try i failed: the next try, or
\* the last error is thrown
NextTry(i, err) ==
  IF LoopContinues(i + 1)
  THEN /\ pc' = "run"
       /\ attempts' = attempts + 1
       /\ UNCHANGED <<res, responses>>
  ELSE /\ Respond(ProviderFailed(req, err))
       /\ UNCHANGED attempts

\* replicate.run throws.  In runWithRetry it is try i = attempts - 1 that
\* failed; the other handlers let the error reach their catch
replicateRunThrows(err) ==
  /\ pc = "run"
  /\ UNCHANGED <<insertFailed, concVars>>
  /\ lastErr' = err
  /\ IF req.handler = "imagen"
     THEN IF SleepsAfter(attempts - 1)
          THEN /\ \E floor \in RandomFloors : jitter' = Jitter(floor)
               /\ sleeps' = sleeps + 1
               /\ pc' = "sleep"
               /\ UNCHANGED <<attempts, res, responses>>
          ELSE /\ NextTry(attempts - 1, err)
               /\ UNCHANGED <<sleeps, jitter>>
     ELSE /\ Respond(Caught(err.message, UnknownError(req.handler)))
          /\ UNCHANGED <<attempts, sleeps, jitter>>
  /\ UNCHANGED <<req, resHeaders, input, output, fetches, fetchArg,
                 r, contentType, uploads, path, uploadError, lookups, inserts>>

\* await sleep(jitter) is over
sleep ==
  /\ pc = "sleep"
  /\ UNCHANGED <<insertFailed, concVars>>
  /\ jitter' = 0
  /\ NextTry(attempts - 1, lastErr)
  /\ UNCHANGED <<req, resHeaders, input, lastErr, sleeps, output, fetches,
                 fetchArg, r, contentType, uploads, path, uploadError,
                 lookups, inserts>>

Resolve(q, o) ==
  CASE q.handler \in {"server", "flux"} -> ResolveFlux(o)
    [] q.handler = "seedreamA" -> ResolveSeedreamA(o)
    [] q.handler = "seedreamB" -> ResolveSeedreamB(o)
    [] q.handler = "seedreamC" -> ResolveSeedreamC(o)
    [] OTHER -> ResolveImagen(o, Label(q))

\* replicate.run returns: the output's shape is resolved
replicateRunReturns(o) ==
  /\ pc = "run"
  /\ UNCHANGED <<insertFailed, concVars>>
  /\ output' = o
  /\ LET next == Resolve(req, o)
     IN CASE next.kind = "fetch" ->
               /\ CallFetch(next.target)
               /\ UNCHANGED <<contentType, uploads, path, res, responses>>
          [] next.kind = "bytes" ->
               /\ \E uuid \in UUIDs : CallUpload(next.ctype, uuid)
               /\ UNCHANGED <<fetches, fetchArg, res, responses>>
          [] next.kind = "respond" ->
               /\ Respond(JsonError(next.status, next.error, next.debug))
               /\ UNCHANGED <<fetches, fetchArg, contentType, uploads, path>>
          [] next.kind = "throw" ->
               /\ Respond(Caught(next.error, UnknownError(req.handler)))
               /\ UNCHANGED <<fetches, fetchArg, contentType, uploads, path>>
  /\ UNCHANGED <<req, resHeaders, input, attempts, lastErr, sleeps, jitter, r,
                 uploadError, lookups, inserts>>

\* fetch rejects (the address is no URL, the network fails), or reading the
\* body does: the error reaches the handler's catch
fetchThrows(message) ==
  /\ pc = "fetch"
  /\ UNCHANGED <<insertFailed, concVars>>
  /\ Respond(Caught(message, UnknownError(req.handler)))
  /\ UNCHANGED <<req, resHeaders, input, attempts, lastErr, sleeps, jitter,
                 output, fetches, fetchArg, r, contentType, uploads, path,
                 uploadError, lookups, inserts>>

\* the upstream status left out of the message
DownloadFailedWithoutStatus(q, o, resp) == "Failed to download image"

\* `Failed to download image: ${r.status} ${r.statusText}`
DownloadFailed(q, o, resp) ==
  "Failed to download "
    \o (IF Kind(q) = "video" THEN "video" ELSE "image")
    \o (IF q.handler = "seedreamB" THEN Coalesce(Resolve(q, o).error, "") ELSE "")
    \o ": " \o ToString(resp.status) \o " " \o resp.statusText

\* fetch resolves with a response
fetchResolves(resp) ==
  /\ pc = "fetch"
  /\ UNCHANGED <<insertFailed, concVars>>
  /\ IsHttpUrl(fetchArg)
  /\ r' = resp
  /\ IF ~resp.ok
     THEN /\ Respond(
               CASE req.handler \in {"server", "flux", "seedreamB"} ->
                      Caught(DownloadFailed(req, output, resp),
                             UnknownError(req.handler))
                 [] req.handler = "imagen" ->
                      JsonError(502, DownloadFailed(req, output, resp), NoDebug)
                 [] OTHER ->
                      JsonError(IF resp.status # 0 THEN resp.status ELSE 502,
                                DownloadFailed(req, output, resp), NoDebug))
          /\ UNCHANGED <<contentType, uploads, path>>
     ELSE /\ \E uuid \in UUIDs :
               CallUpload(OrElse(resp.header, DefaultContentType(req)), uuid)
          /\ UNCHANGED <<res, responses>>
  /\ UNCHANGED <<req, resHeaders, input, attempts, lastErr, sleeps, jitter,
                 output, fetches, fetchArg, uploadError, lookups, inserts>>

\* clientInput && typeof clientInput.text === "string", in the video handler
RecordsMessage(q) ==
  Kind(q) = "video" /\ TypeOf(q.clientInput["text"]) = "string"

\* the rejection answered as a bad gateway
UploadRejectedAs502(h, error) == JsonError(502, error, NoDebug)

\* if (uploadError): thrown to the catch, or answered in place
UploadRejected(h, error) ==
  IF h \in {"server", "flux", "seedreamB"}
  THEN Caught(error, UnknownError(h))
  ELSE JsonError(500, error, NoDebug)

\* the error of the upload not looked at
uploadIgnoresError(error) ==
  /\ pc = "upload"
  /\ UNCHANGED <<insertFailed, concVars>>
  /\ uploadError' = error
  /\ lookups' = lookups + 1
  /\ Respond(JsonOk(req.handler, Kind(req), path, PublicUrl(path)))
  /\ UNCHANGED <<req, resHeaders, input, attempts, lastErr, sleeps, jitter,
                 output, fetches, fetchArg, r, contentType, uploads, path,
                 inserts>>

\* storage upload settles with { error }
upload(error) ==
  /\ pc = "upload"
  /\ UNCHANGED <<insertFailed, concVars>>
  /\ uploadError' = error
  /\ IF error # UNDEF
     THEN /\ Respond(UploadRejected(req.handler, error))
          /\ UNCHANGED <<lookups, inserts>>
     ELSE IF RecordsMessage(req)
     THEN /\ pc' = "insert"
          /\ inserts' = inserts + 1
          /\ UNCHANGED <<lookups, res, responses>>
     ELSE /\ lookups' = lookups + 1
          /\ Respond(JsonOk(req.handler, Kind(req), path, PublicUrl(path)))
          /\ UNCHANGED inserts
  /\ UNCHANGED <<req, resHeaders, input, attempts, lastErr, sleeps, jitter,
                 output, fetches, fetchArg, r, contentType, uploads, path>>

\* messages.insert settles; the handler ignores how (try { ... } catch {})
insert(failed) ==
  /\ pc = "insert"
  /\ insertFailed' = failed
  /\ UNCHANGED concVars
  /\ lookups' = lookups + 1
  /\ Respond(JsonOk(req.handler, Kind(req), path, PublicUrl(path)))
  /\ UNCHANGED <<req, resHeaders, input, attempts, lastErr, sleeps, jitter,
                 output, fetches, fetchArg, r, contentType, uploads, path,
                 uploadError, inserts>>

-----------------------------------------------------------------------------
(* The video handler in submission mode.  Its code is not among the       *)
(* sources of this development; it is modelled from the specification:    *)
(* the job is submitted with a callback URL (taken as configured), and    *)
(* the caller is acknowledged at once with the job's identifier.          *)

\* the requests the submission handler sees
SubmissionRequests ==
  {Request("submission", m, TRUE, "video", prompt, image, userId, characterId,
           EmptyObject) :
     m \in {"OPTIONS", "POST", "GET"}, prompt \in {UNDEF, "a cat"},
     image \in {UNDEF, "ref"}, userId \in {UNDEF, "u1"},
     characterId \in {UNDEF, "c1"}}

\* the job identifiers the provider hands out
PredictionIds == {"pred-1", "pred-2"}

\* the acknowledgment answered as a finished generation
AcceptedAs200(id) ==
  [NoResponse EXCEPT !.status = 200, !.body = "json", !.type = "video",
                     !.jobStatus = "processing", !.predictionId = id]

\* 202 { type: "video", status: "processing", predictionId }
Accepted(id) ==
  [NoResponse EXCEPT !.status = 202, !.body = "json", !.type = "video",
                     !.jobStatus = "processing", !.predictionId = id]

\* the response given before the job is submitted, NoResponse when it is
SubmissionEarly(q) ==
  IF q.method = "OPTIONS" THEN End(200)
  ELSE IF q.method # "POST" THEN JsonError(405, "Method not allowed", NoDebug)
  ELSE IF RequiredMissing(q)
    THEN JsonError(400, "prompt, userId, characterId required", NoDebug)
  ELSE IF ~Truthy(StartImage(q.image, q.clientInput))
    THEN JsonError(400, "image or start_image required for video", NoDebug)
  ELSE NoResponse

\* a request arrives: it is answered, or its job is submitted
submitVideo(q) ==
  /\ pc = "idle"
  /\ UNCHANGED <<insertFailed, concVars>>
  /\ req' = q
  /\ resHeaders' = HeadersOf(q.handler)
  /\ IF SubmissionEarly(q) # NoResponse
     THEN /\ Respond(SubmissionEarly(q))
          /\ UNCHANGED <<input, attempts>>
     ELSE /\ pc' = "submit"
          /\ input' = KlingInput(q.prompt, q.image, q.clientInput)
          /\ attempts' = attempts + 1
          /\ UNCHANGED <<res, responses>>
  /\ UNCHANGED <<lastErr, sleeps, jitter, output, fetches, fetchArg, r,
                 contentType, uploads, path, uploadError, lookups, inserts>>

\* the provider accepts the job and returns its identifier
submitReturns(id) ==
  /\ pc = "submit"
  /\ UNCHANGED <<insertFailed, concVars>>
  /\ Respond(Accepted(id))
  /\ UNCHANGED <<req, resHeaders, input, attempts, lastErr, sleeps, jitter,
                 output, fetches, fetchArg, r, contentType, uploads, path,
                 uploadError, lookups, inserts>>

\* the provider refuses the job
submitThrows(err) ==
  /\ pc = "submit"
  /\ UNCHANGED <<insertFailed, concVars>>
  /\ lastErr' = err
  /\ Respond(JsonError(500, OrElse(err.message, "Video generation failed"),
                       NoDebug))
  /\ UNCHANGED <<req, resHeaders, input, attempts, sleeps, jitter,
                 output, fetches, fetchArg, r, contentType, uploads, path,
                 uploadError, lookups, inserts>>

-----------------------------------------------------------------------------

Arrival == pc = "idle" /\ \E q \in Requests : handler(q)

SubmissionArrival == pc = "idle" /\ \E q \in SubmissionRequests : submitVideo(q)

SubmitReturns == pc = "submit" /\ \E id \in PredictionIds : submitReturns(id)

SubmitThrows == pc = "submit" /\ \E err \in ProviderErrors : submitThrows(err)

RunThrows == pc = "run" /\ \E err \in ProviderErrors : replicateRunThrows(err)

RunReturns == pc = "run" /\ \E o \in Outputs : replicateRunReturns(o)

FetchThrows == pc = "fetch" /\ \E message \in {"fetch failed"} : fetchThrows(message)

FetchResolves == pc = "fetch" /\ \E resp \in FetchResponses : fetchResolves(resp)

UploadSettles == pc = "upload" /\ \E error \in UploadErrors \cup {UNDEF} : upload(error)

InsertSettles == pc = "insert" /\ \E failed \in BOOLEAN : insert(failed)

Next ==
  \/ Arrival
  \/ RunThrows
  \/ sleep
  \/ RunReturns
  \/ FetchThrows
  \/ FetchResolves
  \/ UploadSettles
  \/ InsertSettles
  \/ SubmissionArrival
  \/ SubmitReturns
  \/ SubmitThrows

Spec == Init /\ [][Next]_vars

\* the steps that end an await: the awaited call settles or the timer fires
Settles ==
  \/ RunThrows
  \/ sleep
  \/ RunReturns
  \/ FetchThrows
  \/ FetchResolves
  \/ UploadSettles
  \/ InsertSettles
  \/ SubmitReturns
  \/ SubmitThrows

\* every call the handler awaits settles, and the timer of sleep fires; that
\* a request arrives at all is not assumed
LiveSpec == Spec /\ WF_vars(Settles)

-----------------------------------------------------------------------------
(* Requests interleaved at their awaits.  An invocation runs from one     *)
(* await to the next without interruption; what it reads and writes are   *)
(* its own locals, the provider, fetch and storage.                       *)

\* uuidv4(): a value no earlier call has returned
FreshUuid == "uuid-" \o ToString(issued + 1)

\* the path of whichever upload was called last
LatestPath(i) ==
  IF Len(uploadCalls) = 0 THEN UNDEF ELSE uploadCalls[Len(uploadCalls)].path

\* const path, a local of the invocation
OwnPath(i) == procs[i].path

\* invocation i sends its response
Answer(i, response) ==
  procs' = [procs EXCEPT ![i].pc = "done", ![i].res = response]

\* a request arrives and its handler runs to its first await
invoke(q) ==
  /\ Len(procs) < MaxRequests
  /\ procs' = Append(procs,
       IF Early(q) # NoResponse
       THEN [NoInvocation EXCEPT !.req = q, !.pc = "done", !.res = Early(q)]
       ELSE [NoInvocation EXCEPT !.req = q, !.pc = "run", !.attempts = 1])
  /\ UNCHANGED <<uploadCalls, issued>>

\* replicate.run rejects in invocation i
runRejects(i, err) ==
  LET p == procs[i]
  IN /\ p.pc = "run"
     /\ IF p.req.handler # "imagen"
        THEN Answer(i, Caught(err.message, UnknownError(p.req.handler)))
        ELSE IF SleepsAfter(p.attempts - 1)
        THEN procs' = [procs EXCEPT ![i].pc = "sleep", ![i].lastErr = err]
        ELSE IF LoopContinues(p.attempts)
        THEN procs' = [procs EXCEPT ![i].attempts = p.attempts + 1,
                                    ![i].lastErr = err]
        ELSE Answer(i, ProviderFailed(p.req, err))
     /\ UNCHANGED <<uploadCalls, issued>>

\* the sleep of invocation i is over
wakes(i) ==
  LET p == procs[i]
  IN /\ p.pc = "sleep"
     /\ IF LoopContinues(p.attempts)
        THEN procs' = [procs EXCEPT ![i].pc = "run",
                                    ![i].attempts = p.attempts + 1]
        ELSE Answer(i, ProviderFailed(p.req, p.lastErr))
     /\ UNCHANGED <<uploadCalls, issued>>

\* replicate.run resolves in invocation i
runResolves(i, o) ==
  LET p == procs[i]
      next == Resolve(p.req, o)
  IN /\ p.pc = "run"
     /\ IF next.kind = "fetch"
        THEN procs' = [procs EXCEPT ![i].pc = "fetch", ![i].output = o]
        ELSE IF next.kind = "respond"
        THEN procs' = [procs EXCEPT
                         ![i].pc = "done", ![i].output = o,
                         ![i].res = JsonError(next.status, next.error, next.debug)]
        ELSE procs' = [procs EXCEPT
                         ![i].pc = "done", ![i].output = o,
                         ![i].res = Caught(next.error, UnknownError(p.req.handler))]
     /\ UNCHANGED <<uploadCalls, issued>>

\* fetch resolves in invocation i: the path is built and upload is called
fetched(i, resp) ==
  LET p == procs[i]
      failed == DownloadFailed(p.req, p.output, resp)
      ct == OrElse(resp.header, DefaultContentType(p.req))
      newPath == StoragePath(p.req, FreshUuid, Ext(p.req, ct))
  IN /\ p.pc = "fetch"
     /\ IF ~resp.ok
        THEN /\ Answer(i, IF p.req.handler = "imagen"
                          THEN JsonError(502, failed, NoDebug)
                          ELSE Caught(failed, UnknownError(p.req.handler)))
             /\ UNCHANGED <<uploadCalls, issued>>
        ELSE /\ procs' = [procs EXCEPT ![i].pc = "upload", ![i].path = newPath]
             /\ issued' = issued + 1
             /\ uploadCalls' = Append(uploadCalls, [path |-> newPath, by |-> i])

\* the upload of invocation i settles
uploaded(i, error) ==
  LET p == procs[i]
  IN /\ p.pc = "upload"
     /\ IF error # UNDEF
        THEN Answer(i, UploadRejected(p.req.handler, error))
        ELSE Answer(i, JsonOk(p.req.handler, Kind(p.req), OwnPath(i),
                              PublicUrl(OwnPath(i))))
     /\ UNCHANGED <<uploadCalls, issued>>

Invoke ==
  /\ \E q \in ConcurrentRequests : invoke(q)
  /\ UNCHANGED requestVars

RunRejects ==
  /\ \E i \in Slots :
       /\ procs[i].pc = "run"
       /\ \E err \in {[message |-> "Prediction failed", status |-> 0]} :
            runRejects(i, err)
  /\ UNCHANGED requestVars

Wakes ==
  /\ \E i \in Slots : wakes(i)
  /\ UNCHANGED requestVars

RunResolves ==
  /\ \E i \in Slots :
       /\ procs[i].pc = "run"
       /\ \E o \in {Single(UrlString), Single(Null)} : runResolves(i, o)
  /\ UNCHANGED requestVars

Fetched ==
  /\ \E i \in Slots :
       /\ procs[i].pc = "fetch"
       /\ \E resp \in FetchResponses :
            /\ resp.header \in {NULL, "image/png"}
            /\ resp.status # 503
            /\ fetched(i, resp)
  /\ UNCHANGED requestVars

Uploaded ==
  /\ \E i \in Slots :
       /\ procs[i].pc = "upload"
       /\ \E error \in UploadErrors \cup {UNDEF} : uploaded(i, error)
  /\ UNCHANGED requestVars

ConcNext ==
  \/ Invoke
  \/ RunRejects
  \/ Wakes
  \/ RunResolves
  \/ Fetched
  \/ Uploaded

ConcSpec == Init /\ [][ConcNext]_vars

-----------------------------------------------------------------------------
(* Properties *)

NoExternalCall == attempts = 0 /\ fetches = 0 /\ uploads = 0

Done == pc = "done"

\* the handlers that call the provider through runWithRetry
UsesRetry == req.handler = "imagen"

\* C1: every POST in which prompt, userId or characterId is missing or empty
\* is answered 400, and no provider call, download or upload is made for it.
C1_MissingFieldIs400 ==
  (Done /\ req.method = "POST" /\ RequiredMissing(req))
    => (res.status = 400 /\ NoExternalCall)

\* C2: under runWithRetry a provider call that fails on every try is tried
\* exactly Tries = 2 times, never more and never just once, then the handler
\* answers with the provider's error; and runWithRetry always comes to an end.
C2_RetryBound ==
  /\ [](UsesRetry => attempts <= Tries)
  /\ []((UsesRetry /\ Done /\ attempts > 0 /\ output = NoOutput)
          => /\ attempts = Tries
             /\ res.body = "json"
             /\ res.status = (IF lastErr.status # 0 THEN lastErr.status ELSE 500)
             /\ Truthy(res.error)
             /\ res.error \in {lastErr.message, "Image generation failed",
                               "Video generation failed"}
             /\ fetches = 0 /\ uploads = 0)
  /\ ((UsesRetry /\ pc \in {"run", "sleep"}) ~> (pc \notin {"run", "sleep"}))

C2_Witness ==
  /\ UsesRetry /\ Done
  /\ attempts = Tries /\ sleeps = 1 /\ output = NoOutput
  /\ res.status = 500 /\ res.error = "Prediction failed"

\* the keys the provider's model accepts, as each handler knows them, with
\* the mandatory prompt and start image
AllowList(q) ==
  CASE q.handler \in {"server", "flux"} -> KeysOf(FluxDefaults("p"))
    [] q.handler = "imagen" /\ Kind(q) = "video" ->
         ALLOWED_VIDEO_KEYS \cup {"prompt", "start_image"}
    [] q.handler = "imagen" -> ALLOWED_IMAGE_KEYS \cup {"prompt"}
    [] OTHER -> allowedKeys \cup {"prompt"}

\* C3: the input object given to the provider holds no key outside the
\* model's allow-list (with prompt and the start image): keys the handler
\* does not know never reach the provider.
C3_OnlyAllowedKeysReachProvider ==
  attempts > 0 => KeysOf(input) \subseteq AllowList(req)

\* the handlers of generate.js, which map guidance to guidance_scale
MapsGuidance == req.handler \in {"seedreamA", "seedreamB", "seedreamC"}

\* C4: in the seedream handlers a client input with a numeric guidance and
\* no numeric guidance_scale gives the provider guidance_scale = guidance and
\* no guidance key; when both are numbers, the client's guidance_scale wins.
C4_GuidanceBecomesGuidanceScale ==
  (MapsGuidance /\ attempts > 0)
    => LET ci == req.clientInput
       IN /\ (TypeOf(ci["guidance"]) = "number"
                /\ TypeOf(ci["guidance_scale"]) # "number")
               => (input["guidance_scale"] = ci["guidance"]
                     /\ input["guidance"] = UNDEF)
          /\ (TypeOf(ci["guidance"]) = "number"
                /\ TypeOf(ci["guidance_scale"]) = "number")
               => (input["guidance_scale"] = ci["guidance_scale"]
                     /\ input["guidance"] = UNDEF)

\* the error a handler answers with for an output it cannot resolve
UnrecognizedShape ==
  {"Unrecognized model output shape", "Image generation failed (no URL)",
   "Video generation failed (no URL)"}

\* C5: in the first handler of generate.js and in the handler built on
\* extractUrl, every provider output is resolved to exactly one of a remote
\* URL (that is downloaded), immediate bytes (that are uploaded without a
\* download) or the unrecognized-shape error response; no output, not even an
\* accessor that throws, ends the resolution in an exception.
C5_ResolutionIsTotal ==
  (req.handler \in {"seedreamA", "imagen"} /\ output # NoOutput)
    => \/ fetches = 1
       \/ fetches = 0 /\ uploads = 1
       \/ /\ fetches = 0 /\ uploads = 0 /\ Done
          /\ res.body = "json" /\ res.error \in UnrecognizedShape

\* the extension of the stored file's name
Extensions == {"png", "jpg", "webp", "mp4"}

ExtOfPath ==
  CHOOSE e \in Extensions \cup {UNDEF} :
    \/ \E uuid \in UUIDs : path = StoragePath(req, uuid, e)
    \/ e = UNDEF /\ \A uuid \in UUIDs, x \in Extensions :
                      path # StoragePath(req, uuid, x)

\* the extension of a handler for a content type it does not match
DefaultExt == IF req.handler \in {"server", "flux"} THEN "webp" ELSE "jpg"

\* C6: the extension of the stored file follows the content type: a type
\* containing "png" gives png, "image/webp" gives webp, a type containing
\* "jpeg" or "jpg" gives jpg, any other image type gives the handler's
\* default; an image is always stored as png, jpg or webp and a video as mp4.
C6_ExtensionFollowsContentType ==
  uploads > 0 =>
    IF Kind(req) = "video" THEN ExtOfPath = "mp4"
    ELSE /\ ExtOfPath \in {"png", "jpg", "webp"}
         /\ Includes(contentType, "png") => ExtOfPath = "png"
         /\ contentType = "image/webp" => ExtOfPath = "webp"
         /\ (Includes(contentType, "jpeg") \/ Includes(contentType, "jpg"))
              => ExtOfPath = "jpg"
         /\ (~Includes(contentType, "png") /\ ~Includes(contentType, "webp")
               /\ ~Includes(contentType, "jpeg") /\ ~Includes(contentType, "jpg"))
              => ExtOfPath = DefaultExt

C6_Witness ==
  /\ req.handler = "server" /\ uploads = 1
  /\ contentType = "image/jpeg"
  /\ path = StoragePath(req, "uuid-1", "jpg")

\* how the error of a failed download begins
DownloadFailedPrefixes ==
  {"Failed to download image: ", "Failed to download video: ",
   "Failed to download image (toString URL): "}

\* C7: an output resolved to a remote URL is downloaded with exactly one GET;
\* when the GET's answer is not 2xx the handler ends with a JSON error
\* response of an error status that carries the upstream status, without a
\* second GET and without a storage upload.
C7_OneDownloadNoRetry ==
  /\ fetches <= 1
  /\ (output # NoOutput /\ Resolve(req, output).kind = "fetch") => fetches = 1
  /\ (fetches = 1 /\ r # NoFetchResponse /\ ~r.ok)
       => /\ Done
          /\ res.body = "json"
          /\ res.status \in {500, 502, r.status}
          /\ \E prefix \in DownloadFailedPrefixes :
               res.error = prefix \o ToString(r.status) \o " " \o r.statusText
          /\ fetches = 1
          /\ uploads = 0 /\ path = UNDEF /\ lookups = 0

C7_Witness ==
  /\ req.handler = "imagen" /\ Done
  /\ output = Single(UrlString) /\ fetches = 1
  /\ r.status = 404
  /\ res.status = 502 /\ res.error = "Failed to download image: 404 Not Found"
  /\ uploads = 0

\* C8: when storage rejects the upload the handler ends with a 500 JSON error
\* response; the upload was called exactly once, the public URL is not looked
\* up, no message is recorded and no success response is sent.
C8_UploadRejectedIs500 ==
  uploadError # UNDEF
    => /\ Done
       /\ res.status = 500 /\ res.body = "json"
       /\ res.error = uploadError
       /\ res.url = UNDEF /\ res.path = UNDEF
       /\ uploads = 1
       /\ lookups = 0 /\ inserts = 0
       /\ responses = 1

C8_Witness ==
  /\ req.handler = "imagen" /\ Kind(req) = "video" /\ Done
  /\ uploads = 1 /\ uploadError \in UploadErrors
  /\ res.status = 500 /\ lookups = 0

\* a POST for a video
VideoPost ==
  req.handler = "imagen" /\ req.method = "POST" /\ Kind(req) = "video"

\* C9: a video request with neither an image nor a start_image in its input
\* is answered 400 and the provider is not called; whenever the provider is
\* called for a video, the start_image of its input is the client's
\* start_image if there is one, the image otherwise, and is not empty.
C9_VideoNeedsStartImage ==
  /\ (VideoPost /\ ~Truthy(req.image)
        /\ ~Truthy(req.clientInput["start_image"]))
       => (Done /\ res.status = 400 /\ res.body = "json" /\ NoExternalCall)
  /\ (VideoPost /\ attempts > 0)
       => /\ input["start_image"] =
               (IF req.clientInput["start_image"] \in {UNDEF, NULL}
                THEN req.image ELSE req.clientInput["start_image"])
          /\ Truthy(input["start_image"])

C9_Witness ==
  /\ VideoPost /\ Done
  /\ ~RequiredMissing(req)
  /\ ~Truthy(req.image) /\ ~Truthy(req.clientInput["start_image"])
  /\ res.status = 400
  /\ res.error = "image or start_image required for video"
  /\ attempts = 0

\* C10: an OPTIONS request is answered 200 without a body, with the CORS
\* headers that allow any origin; a request of any method other than POST and
\* OPTIONS is answered 405 with a JSON error.  Neither answer depends on the
\* body, and neither touches the provider, a download or storage.
C10_MethodHandling ==
  /\ (Done /\ req.method = "OPTIONS")
       => /\ res.status = 200 /\ res.body = "end" /\ res.error = UNDEF
          /\ CorsHeaders \subseteq resHeaders
          /\ NoExternalCall /\ lookups = 0 /\ inserts = 0
  /\ (Done /\ req.method \notin {"POST", "OPTIONS"})
       => /\ res.status = 405 /\ res.body = "json"
          /\ res.error = "Method not allowed"
          /\ NoExternalCall /\ lookups = 0 /\ inserts = 0

C10_Witness ==
  /\ Done /\ req.handler = "imagen" /\ req.method = "GET"
  /\ req.hasBody /\ RequiredMissing(req)
  /\ res.status = 405 /\ attempts = 0

\* C11: whatever fails while a POST is handled (the provider, the download,
\* the upload, an output of no known shape, a request without a body), the
\* handler answers with an error status and a JSON body whose error field is
\* a non-empty message; every request is answered in the end, and never
\* twice.
C11_EveryFailureIsAJsonError ==
  /\ [](responses <= 1)
  /\ [](Done => responses = 1)
  /\ []((Done /\ req.method = "POST" /\ res.status \notin {200, 202})
          => /\ res.status \in 400..599
             /\ res.body = "json"
             /\ TypeOf(res.error) = "string" /\ Truthy(res.error))
  /\ []((Done /\ req.method = "POST"
           /\ ((lastErr # NoError /\ output = NoOutput)
                 \/ uploadError # UNDEF \/ ~req.hasBody
                 \/ (r # NoFetchResponse /\ ~r.ok)))
          => res.status # 200)
  /\ ((pc # "idle") ~> Done)

C11_Witness ==
  /\ Done /\ req.handler = "server" /\ req.method = "POST"
  /\ attempts = 1 /\ lastErr.message = ""
  /\ res.status = 500 /\ res.body = "json" /\ res.error = "Unknown error"
  /\ responses = 1

\* C12: every upload goes to userId/characterId/<uuid>.<ext> for an image
\* and to userId/characterId/videos/<uuid>.mp4 for a video, with the
\* request's own userId and characterId and the extension inferred from the
\* content type; the path of the success response is the uploaded path.
C12_StoragePathForm ==
  /\ uploads > 0
       => \E uuid \in UUIDs :
            path = IF Kind(req) = "video"
                   THEN req.userId \o "/" \o req.characterId \o "/videos/"
                          \o uuid \o ".mp4"
                   ELSE req.userId \o "/" \o req.characterId \o "/"
                          \o uuid \o "." \o Ext(req, contentType)
  /\ (Done /\ req.method = "POST" /\ res.status = 200)
       => (uploads = 1 /\ res.path = path)

C12_Witness ==
  /\ Done /\ VideoPost /\ res.status = 200
  /\ uploads = 1
  /\ path = "u1/c1/videos/uuid-2.mp4"
  /\ res.path = "u1/c1/videos/uuid-2.mp4"

\* a POST to the video handler in submission mode
SubmissionPost == req.handler = "submission" /\ req.method = "POST"

\* C13: a valid video request in submission mode, whose job the provider
\* accepts, is answered 202 with {type: "video", status: "processing",
\* predictionId}; the handler does not wait for the provider's output, and a
\* request in this mode never downloads or uploads anything.
C13_SubmissionIsAcknowledged ==
  /\ req.handler = "submission"
       => (output = NoOutput /\ fetches = 0 /\ uploads = 0 /\ lookups = 0
             /\ attempts <= 1)
  /\ (SubmissionPost /\ Done /\ ~RequiredMissing(req) /\ Truthy(req.image)
        /\ lastErr = NoError)
       => /\ res.status = 202 /\ res.body = "json"
          /\ res.type = "video" /\ res.jobStatus = "processing"
          /\ res.predictionId \in PredictionIds
          /\ res.path = UNDEF /\ res.url = UNDEF /\ res.error = UNDEF
          /\ attempts = 1 /\ responses = 1

C13_Witness ==
  /\ SubmissionPost /\ Done
  /\ req.prompt = "a cat" /\ req.image = "ref"
  /\ res.status = 202 /\ res.predictionId = "pred-1"
  /\ attempts = 1 /\ fetches = 0 /\ uploads = 0

\* C14: when the provider call has failed on every try of runWithRetry, the
\* handler answers with status 500 or 502 and a JSON error body, and makes
\* no download and no upload.
C14_ProviderFailureIs500Or502 ==
  (UsesRetry /\ Done /\ attempts = Tries /\ output = NoOutput
     /\ lastErr # NoError)
    => /\ res.status \in {500, 502}
       /\ res.body = "json" /\ Truthy(res.error)
       /\ fetches = 0 /\ uploads = 0

\* C15: an output of none of the recognized shapes is answered with status
\* 500 and a body that carries the debug payload (the observed type and the
\* outcome of each shape check), after no download and no upload; the
\* condition is never passed over.
C15_UnrecognizedShapeHasDebug ==
  /\ (req.handler \in {"seedreamA", "imagen"} /\ output # NoOutput
        /\ Resolve(req, output).kind = "respond")
       => (Done /\ res.error \in UnrecognizedShape)
  /\ (Done /\ res.error \in UnrecognizedShape)
       => /\ res.status = 500 /\ res.body = "json"
          /\ res.debug.type \in {"undefined", "object", "string", "number"}
          /\ res.debug.hasUrlFn \in BoolVals
          /\ res.debug.isUint8Array \in BoolVals
          /\ res.debug.isBlob \in BoolVals
          /\ fetches = 0 /\ uploads = 0

\* C16: the prompt of the input given to the provider is the request's own
\* top-level prompt, whatever the caller's input dictionary holds, a key
\* named prompt included.
C16_PromptIsTheRequestsPrompt ==
  attempts > 0 => (input["prompt"] = req.prompt /\ Truthy(input["prompt"]))

\* the 200 that ends a generation
Success == Done /\ req.method = "POST" /\ res.status = 200

\* what holds of every success: the provider returned, one upload was made
\* and accepted, and the response names the uploaded path and its public URL
SuccessAfterUpload ==
  /\ Success
       => /\ attempts >= 1 /\ output # NoOutput
          /\ uploads = 1 /\ uploadError = UNDEF
          /\ lookups = 1
          /\ res.body = "json" /\ res.error = UNDEF
          /\ res.path = path /\ res.url = PublicUrl(path)
  /\ fetches > 0 => (attempts >= 1 /\ output # NoOutput)
  /\ lookups > 0 => (uploads = 1 /\ uploadError = UNDEF)

\* C17 as stated: a 200 is sent only after the provider call, the download
\* of the artifact and the upload have each succeeded, in that order, with
\* exactly one upload, the uploaded path and its public URL in the response.
C17_SuccessAfterDownload ==
  /\ SuccessAfterUpload
  /\ uploads > 0 => (fetches = 1 /\ r.ok)

\* C17, amended: a 200 is sent only after the provider call, the download of
\* the artifact when the output is a remote URL (an output of raw bytes is
\* uploaded as it is, without a download) and the upload have each
\* succeeded, in that order, with exactly one upload, the uploaded path and
\* its public URL in the response.
C17_SuccessAfterDownloadOrBytes ==
  /\ SuccessAfterUpload
  /\ uploads > 0
       => \/ fetches = 1 /\ r.ok
          \/ /\ fetches = 0 /\ r = NoFetchResponse
             /\ req.handler \in {"seedreamA", "seedreamB"}
             /\ ~output.isArray /\ output.elems[1].bin \in {"Blob", "Uint8Array"}

C17_Witness ==
  /\ Success /\ req.handler = "seedreamA"
  /\ output = Single(PngBlob)
  /\ fetches = 0 /\ uploads = 1 /\ lookups = 1
  /\ res.url = PublicUrl(path)

\* C18: of an output that is an array the first element is resolved as an
\* output of its own would be: for an object with a url() accessor the URL
\* the accessor yields is downloaded, for a string URL that URL, and an
\* empty array ends in the unrecognized-shape (no URL) error.
C18_ArrayResolvesFirstElement ==
  (req.handler \in {"server", "flux", "imagen", "seedreamA"}
     /\ output # NoOutput /\ output.isArray)
    => IF Len(output.elems) = 0
       THEN /\ Done /\ fetches = 0 /\ uploads = 0
            /\ res.status = 500
            /\ res.error \in UnrecognizedShape \cup {"No image URL returned by model"}
       ELSE LET first == output.elems[1]
            IN /\ (first.url = "fn" /\ first.ret \in {"string", "URL"}
                     /\ IsHttpUrl(first.href))
                    => (fetches = 1 /\ fetchArg = first.href)
               /\ (first.ty = "string" /\ IsHttpUrl(first.str))
                    => (fetches = 1 /\ fetchArg = first.str)

\* C19: the shape checks come in a fixed order: an output that is raw
\* binary and also has a url() accessor is resolved through the accessor,
\* to the URL it yields, and a plain string is taken for a URL, and
\* downloaded, only when it begins with http:// or https://; any other
\* string is an unrecognized shape.
C19_ShapeOrder ==
  (req.handler \in {"seedreamA", "imagen"} /\ output # NoOutput
     /\ ~output.isArray)
    => LET o == output.elems[1]
       IN /\ (o.bin # "none" /\ o.url = "fn" /\ o.ret = "string"
                /\ IsHttpUrl(o.href))
               => (fetches = 1 /\ fetchArg = o.href)
          /\ (o.ty = "string" /\ IsHttpUrl(o.str))
               => (fetches = 1 /\ fetchArg = o.str)
          /\ (o.ty = "string" /\ ~IsHttpUrl(o.str))
               => /\ fetches = 0 /\ uploads = 0
                  /\ Done /\ res.error \in UnrecognizedShape

\* the default of aspect_ratio in each handler
DefaultAspectRatio == IF req.handler = "imagen" THEN "4:3" ELSE "9:16"

\* C20: a permitted key that the caller gives as null, or does not give, is
\* as good as not supplied: no key of the provider's input is null, and
\* aspect_ratio, which has a default, then holds its default.
C20_NullIsNotSupplied ==
  (req.handler \in {"imagen", "seedreamA", "seedreamB"} /\ attempts > 0)
    => /\ \A k \in AllKeys : input[k] # NULL
       /\ (Kind(req) = "image"
             /\ req.clientInput["aspect_ratio"] \in {UNDEF, NULL})
            => input["aspect_ratio"] = DefaultAspectRatio

\* C21: runWithRetry sleeps only between a failed try and the next one:
\* once when the first try fails, for 300 to 799 ms, and neither after a try
\* that succeeded nor after the last failed try; when a try succeeds its
\* output is returned at once and the provider is not called again.
C21_BackoffOnlyBetweenTries ==
  /\ [](UsesRetry => sleeps <= Tries - 1)
  /\ [](pc = "sleep"
          => /\ UsesRetry
             /\ jitter \in JitterBase..(JitterBase + JitterSpan - 1)
             /\ jitter \in 300..799
             /\ attempts = 1 /\ sleeps = 1
             /\ lastErr # NoError /\ output = NoOutput)
  /\ []((UsesRetry /\ attempts >= 1)
          => sleeps = (IF lastErr # NoError THEN 1 ELSE 0))
  /\ []((UsesRetry /\ attempts = Tries) => sleeps = Tries - 1)
  /\ []((UsesRetry /\ Done /\ attempts = Tries /\ output = NoOutput)
          => (sleeps = Tries - 1 /\ jitter = 0))
  /\ [][(UsesRetry /\ output # NoOutput)
          => (attempts' = attempts /\ sleeps' = sleeps /\ output' = output)]_vars
  /\ [][(UsesRetry /\ pc = "run" /\ output' # NoOutput)
          => (pc' # "sleep" /\ attempts' = attempts /\ sleeps' = sleeps)]_vars

C21_Witness ==
  /\ UsesRetry /\ pc = "sleep"
  /\ attempts = 1 /\ sleeps = 1
  /\ jitter = 799

\* C22: once a video is uploaded, a failure to record its message row is
\* fatal: the handler answers with an error, not with a success; and the
\* row is inserted only after the upload has succeeded.
C22_InsertFailureIsFatal ==
  /\ inserts > 0
       => (VideoPost /\ uploads = 1 /\ uploadError = UNDEF /\ inserts = 1)
  /\ (Done /\ insertFailed)
       => /\ res.status \in 500..599
          /\ res.body = "json" /\ Truthy(res.error)
          /\ res.url = UNDEF

\* the invocations of the first image implementation that await replicate.run
GenerationsInFlight ==
  {i \in Slots : procs[i].req.handler \in {"server", "flux"} /\ procs[i].pc = "run"}

\* C23: in the first image implementation generations are serialized: however
\* the requests that arrive side by side interleave, at most one call of the
\* provider is in flight, and a request's generation starts only once the
\* one before it is over.
C23_OneGenerationAtATime == Cardinality(GenerationsInFlight) <= 1

\* the uploads invocation i has called
UploadsOf(i) == {k \in 1..Len(uploadCalls) : uploadCalls[k].by = i}

\* C24: requests interleaved at their awaits do not interfere: a step of one
\* invocation changes no other invocation's state; each upload goes to a path
\* made of the invocation's own userId and characterId and a fresh uuid, so
\* no two uploads share a path; and a 200 carries the path and the url of
\* the invocation's own upload, never those of another request.
C24_RequestsDoNotInterfere ==
  /\ [][\A i \in Slots :
          procs'[i] # procs[i] => \A j \in Slots \ {i} : procs'[j] = procs[j]]_vars
  /\ [](\A k \in 1..Len(uploadCalls) :
          LET c == uploadCalls[k]
              q == procs[c.by].req
          IN /\ c.path = procs[c.by].path
             /\ \E ext \in {"png", "jpg", "webp"} :
                  c.path = q.userId \o "/" \o q.characterId \o "/"
                             \o "uuid-" \o ToString(k) \o "." \o ext
             /\ \A m \in 1..Len(uploadCalls) : m # k => uploadCalls[m].path # c.path)
  /\ [](\A i \in Slots :
          (procs[i].pc = "done" /\ procs[i].res.status = 200)
            => /\ Cardinality(UploadsOf(i)) = 1
               /\ \A k \in UploadsOf(i) :
                    /\ procs[i].res.path = uploadCalls[k].path
                    /\ procs[i].res.url = PublicUrl(uploadCalls[k].path))

C24_Witness ==
  /\ Len(procs) >= 2
  /\ procs[1].pc = "done" /\ procs[1].res.status = 200
  /\ procs[2].pc = "done" /\ procs[2].res.status = 200
  /\ procs[1].req.userId = procs[2].req.userId
  /\ Len(uploadCalls) >= 2
  /\ uploadCalls[1].by = 2 /\ uploadCalls[2].by = 1
  /\ procs[1].res.path # procs[2].res.path

====
